---- MODULE Spec2Model ----
(***************************************************************************)
(* Model of src/queries.js: the Queries facade over the souvenir catalog   *)
(* and the carts collection.  The store gives atomic single-document       *)
(* updates and single-round-trip aggregations; every await of addReview is *)
(* a point where other calls may run.                                      *)
(*                                                                         *)
(* Numbers: $avg is modelled exactly, as a reduced fraction <<num, den>>.  *)
(* Dates are ticks of the clock read by `new Date()`.  uuidv4() is         *)
(* modelled as a fresh token drawn from a counter.                         *)
(***************************************************************************)
EXTENDS Integers, Sequences, FiniteSets, TLC

\* ---------------------------------------------------------------- bounds
MaxCalls == 2
MaxRating == 1
MaxClock == 2

Calls == 1..MaxCalls
Dates == 0..MaxClock

\* ids a caller may pass: s1 and s2 are created externally, s3 never exists
SouvenirIds == {"s1", "s2", "s3"}
InitialIds == {"s1", "s2"}
Logins == {"u1", "u2"}
\* what a caller passes as { login, rating, text }: the lowest and the
\* highest rating, each with its own author and text
ReviewArgs ==
    {[login |-> IF r = 0 THEN "u1" ELSE "u2", rating |-> r,
      text |-> IF r = 0 THEN "bad" ELSE "good"] : r \in {0, MaxRating}}
Amounts == {0, 1}

VARIABLES catalog, carts, clock, nextId, call, ret

vars == <<catalog, carts, clock, nextId, call, ret>>

\* ---------------------------------------------------------------- helpers
RECURSIVE GCD(_, _)
GCD(a, b) == IF b = 0 THEN a ELSE GCD(b, a % b)

Fraction(n, d) == LET g == GCD(n, d) IN IF g = 0 THEN <<0, 1>> ELSE <<n \div g, d \div g>>

\* $sum accumulator of the $group stage over the unwound reviews
RECURSIVE SumRatings(_)
SumRatings(revs) == IF revs = <<>> THEN 0 ELSE Head(revs).rating + SumRatings(Tail(revs))

\* as $avg, but with the quotient truncated to an integer
AvgTruncated(revs) == Fraction(SumRatings(revs) \div Len(revs), 1)

\* { $avg: '$rating' } over a non-empty group
Avg(revs) == Fraction(SumRatings(revs), Len(revs))

\* as $push, but with $position 0: the review goes to the front
PushReviewFront(revs, r) == <<r>> \o revs

\* { $push: { reviews: r } }
PushReview(revs, r) == Append(revs, r)

\* the document addReview pushes: { login, id, text, rating, date }
NewReview(c) ==
    [login |-> c.login, id |-> c.id, text |-> c.text, rating |-> c.rating, date |-> c.date]

\* as the aggregation, but run on the reviews as they were before the last
\* append
AggregateRatingStale(cat, s) ==
    IF s \in DOMAIN cat /\ Len(cat[s].reviews) > 1
    THEN <<[rating |-> Avg(SubSeq(cat[s].reviews, 1, Len(cat[s].reviews) - 1))]>>
    ELSE <<>>

\* $match _id / $unwind reviews / $replaceRoot / $group _id:null: one
\* document when at least one review was unwound, no document otherwise
AggregateRating(cat, s) ==
    IF s \in DOMAIN cat /\ cat[s].reviews # <<>>
    THEN <<[rating |-> Avg(cat[s].reviews)]>>
    ELSE <<>>

\* reviews created externally, before any call of the facade
InitialReviews(s) ==
    IF s = "s2"
    THEN <<[id |-> 1, login |-> "u1", date |-> 0, text |-> "good", rating |-> MaxRating,
            isApproved |-> TRUE]>>
    ELSE <<>>

InitialPrice(s) == IF s = "s1" THEN 5 ELSE 3

\* the one cart, created externally; its last item never resolves
InitialCarts ==
    [l \in {"u1"} |->
        <<[souvenirId |-> "s1", amount |-> 2], [souvenirId |-> "s2", amount |-> 1],
          [souvenirId |-> "s3", amount |-> 1]>>]

IdleCall ==
    [pc |-> "idle", souvenirId |-> "s1", login |-> "u1", rating |-> 0, text |-> "good",
     id |-> 0, date |-> 0, aggregateResult |-> <<>>, error |-> "none"]

InFlight(c) == call[c].pc \in {"started", "pushed", "aggregated"}

\* ---------------------------------------------------------------- Init
Init ==
    /\ \E am \in [InitialIds -> Amounts] :
          catalog = [s \in InitialIds |->
                        [amount |-> am[s], price |-> InitialPrice(s),
                         rating |-> IF InitialReviews(s) = <<>> THEN <<0, 1>>
                                    ELSE Avg(InitialReviews(s)),
                         reviews |-> InitialReviews(s)]]
    /\ carts = InitialCarts
    /\ clock = 1
    /\ nextId = 2
    /\ call = [c \in Calls |-> IdleCall]
    /\ ret = [op |-> "none"]

\* ---------------------------------------------------------------- addReview
\* lines 120-122: the call is entered, id and date are taken; `new Date()`
\* reads a time no earlier than the last one read.  The k-th call entered
\* takes slot k.
AddReviewBegin(c, s, login, rating, text) ==
    /\ call[c].pc = "idle"
    /\ \A b \in Calls : b < c => call[b].pc # "idle"
    /\ \E now \in clock..MaxClock :
         /\ clock' = now
         /\ call' = [call EXCEPT ![c] =
                       [pc |-> "started", souvenirId |-> s, login |-> login,
                        rating |-> rating, text |-> text, id |-> nextId, date |-> now,
                        aggregateResult |-> <<>>, error |-> "none"]]
    /\ nextId' = nextId + 1
    /\ UNCHANGED <<catalog, carts, ret>>

\* lines 123-125: findOneAndUpdate with $push, a no-op when nothing matches
AddReviewPush(c) ==
    /\ call[c].pc = "started"
    /\ LET s == call[c].souvenirId IN
         catalog' = IF s \in DOMAIN catalog
                    THEN [catalog EXCEPT ![s].reviews = PushReview(@, NewReview(call[c]))]
                    ELSE catalog
    /\ call' = [call EXCEPT ![c].pc = "pushed"]
    /\ UNCHANGED <<carts, clock, nextId, ret>>

\* lines 126-140: the aggregation reads the reviews as they are now
AddReviewAggregate(c) ==
    /\ call[c].pc = "pushed"
    /\ call' = [call EXCEPT ![c].pc = "aggregated",
                            ![c].aggregateResult = AggregateRating(catalog, call[c].souvenirId)]
    /\ UNCHANGED <<catalog, carts, clock, nextId, ret>>

\* lines 142-144: aggregateResult[0].rating throws a TypeError on an empty
\* result; otherwise findOneAndUpdate with $set, a no-op when nothing matches
AddReviewSetRating(c) ==
    /\ call[c].pc = "aggregated"
    /\ IF call[c].aggregateResult = <<>>
       THEN /\ call' = [call EXCEPT ![c].pc = "failed", ![c].error = "TypeError"]
            /\ UNCHANGED catalog
       ELSE /\ LET s == call[c].souvenirId IN
                 catalog' = IF s \in DOMAIN catalog
                            THEN [catalog EXCEPT ![s].rating = call[c].aggregateResult[1].rating]
                            ELSE catalog
            /\ call' = [call EXCEPT ![c].pc = "done"]
    /\ UNCHANGED <<carts, clock, nextId, ret>>

\* ---------------------------------------------------------------- purge
\* as the filter, but { amount: { $lte: 1 } }
AlmostOutOfStock(doc) == doc.amount <= 1

\* the filter { amount: 0 }
OutOfStock(doc) == doc.amount = 0

deleteOutOfStockSouvenirs ==
    LET gone == {s \in DOMAIN catalog : OutOfStock(catalog[s])} IN
    /\ catalog' = [s \in DOMAIN catalog \ gone |-> catalog[s]]
    /\ ret' = [op |-> "deleteOutOfStockSouvenirs", deletedCount |-> Cardinality(gone)]
    /\ UNCHANGED <<carts, clock, nextId, call>>

\* ---------------------------------------------------------------- getCartSum
RECURSIVE CostSum(_, _)
CostSum(cat, items) ==
    IF items = <<>> THEN 0
    ELSE cat[Head(items).souvenirId].price * Head(items).amount + CostSum(cat, Tail(items))

\* $lookup + $unwind '$souvenirs': items with no matching souvenir are dropped
Joined(cat, items) == SelectSeq(items, LAMBDA it : it.souvenirId \in DOMAIN cat)

\* the whole pipeline: no document when nothing reached the $group stage
CartAggregate(cat, crt, login) ==
    IF login \in DOMAIN crt /\ Joined(cat, crt[login]) # <<>>
    THEN <<[cost |-> CostSum(cat, Joined(cat, crt[login]))]>>
    ELSE <<>>

getCartSum(login) ==
    LET result == CartAggregate(catalog, carts, login) IN
    /\ ret' = IF result = <<>>
              THEN [op |-> "getCartSum", login |-> login, error |-> "TypeError", value |-> 0]
              ELSE [op |-> "getCartSum", login |-> login, error |-> "none",
                    value |-> result[1].cost]
    /\ UNCHANGED <<catalog, carts, clock, nextId, call>>

\* ---------------------------------------------------------------- getDisscusedSouvenirs
\* as the path, but without the index: 'reviews.date', the dates of all reviews
ReviewsDate(doc) == {doc.reviews[i].date : i \in 1..Len(doc.reviews)}

\* values the path 'reviews.0.date' resolves to in a souvenir document
Reviews0Date(doc) == IF Len(doc.reviews) >= 1 THEN {doc.reviews[1].date} ELSE {}

\* find({ 'reviews.0.date': { $gte: date } })
DisscusedSouvenirs(cat, date) ==
    {s \in DOMAIN cat : \E v \in Reviews0Date(cat[s]) : v >= date}

getDisscusedSouvenirs(date) ==
    /\ ret' = [op |-> "getDisscusedSouvenirs", date |-> date,
               value |-> DisscusedSouvenirs(catalog, date)]
    /\ UNCHANGED <<catalog, carts, clock, nextId, call>>

\* ---------------------------------------------------------------- specifications
AddReviewBeginAny(c) ==
    \E s \in SouvenirIds, r \in ReviewArgs :
        AddReviewBegin(c, s, r.login, r.rating, r.text)

\* addReview calls under any interleaving, together with the purge
Next ==
    \/ \E c \in Calls : AddReviewBeginAny(c)
    \/ \E c \in Calls : AddReviewPush(c)
    \/ \E c \in Calls : AddReviewAggregate(c)
    \/ \E c \in Calls : AddReviewSetRating(c)
    \/ deleteOutOfStockSouvenirs

Spec == Init /\ [][Next]_vars

\* addReview calls that do not overlap (a call is entered only when every
\* earlier call has run to completion), together with the purge and the
\* read operations
AddReviewBeginAlone(c) ==
    /\ \A b \in Calls : ~InFlight(b)
    /\ AddReviewBeginAny(c)

NextSeq ==
    \/ \E c \in Calls : AddReviewBeginAlone(c)
    \/ \E c \in Calls : AddReviewPush(c)
    \/ \E c \in Calls : AddReviewAggregate(c)
    \/ \E c \in Calls : AddReviewSetRating(c)
    \/ deleteOutOfStockSouvenirs
    \/ \E login \in Logins : getCartSum(login)
    \/ \E date \in Dates : getDisscusedSouvenirs(date)

SeqSpec == Init /\ [][NextSeq]_vars

TypeOK ==
    /\ DOMAIN catalog \subseteq InitialIds
    /\ clock \in 1..MaxClock
    /\ \A c \in Calls : call[c].pc \in {"idle", "started", "pushed", "aggregated", "done", "failed"}

\* ================================================================ properties
\* the sum of the ratings of the first n reviews
RECURSIVE RatingTotal(_, _)
RatingTotal(revs, n) == IF n = 0 THEN 0 ELSE revs[n].rating + RatingTotal(revs, n - 1)

\* the fraction r is the arithmetic mean of the ratings of the first n reviews
IsMeanOfFirst(r, revs, n) == n > 0 /\ r[2] > 0 /\ r[1] * n = r[2] * RatingTotal(revs, n)

IsMeanOfAll(r, revs) == IsMeanOfFirst(r, revs, Len(revs))

Quiescent == \A c \in Calls : ~InFlight(c)

\* calls whose append step has run
Appended(s) ==
    {c \in Calls : call[c].souvenirId = s
                   /\ call[c].pc \in {"pushed", "aggregated", "done", "failed"}}

\* the step taken completes call c (its step 2 has run or thrown)
Completes(c) == call[c].pc = "aggregated" /\ call'[c].pc \in {"done", "failed"}

\* C1: with non-overlapping addReview calls, when a call on a souvenir that
\* exists completes, it completes normally and the persisted rating is the
\* arithmetic mean of the ratings of all reviews of that souvenir.
C1_SequentialRatingIsMean ==
    [][\A c \in Calls :
          (Completes(c) /\ call[c].souvenirId \in DOMAIN catalog')
          => /\ call'[c].pc = "done"
             /\ IsMeanOfAll(catalog'[call[c].souvenirId].rating,
                            catalog'[call[c].souvenirId].reviews)]_vars

\* a second call has completed on a souvenir with two reviews of different
\* ratings, and the rating is their mean
C1_Witness ==
    \E c \in Calls :
        /\ c > 1 /\ call[c].pc = "done" /\ Quiescent
        /\ call[c].souvenirId \in DOMAIN catalog
        /\ LET doc == catalog[call[c].souvenirId] IN
             /\ Len(doc.reviews) >= 2
             /\ doc.reviews[1].rating # doc.reviews[2].rating
             /\ doc.reviews[Len(doc.reviews)].id = call[c].id
             /\ IsMeanOfAll(doc.rating, doc.reviews)

\* C2: the review sequence is append-only under any interleaving: a step
\* keeps every review present, unchanged and in place and adds at most one
\* review, a call's append step adds exactly that call's review at the end,
\* no review id occurs twice, and after k append steps the sequence holds
\* exactly k more reviews than it had initially.
C2_AppendOnly ==
    /\ [](\A s \in DOMAIN catalog :
            /\ Len(catalog[s].reviews) = Len(InitialReviews(s)) + Cardinality(Appended(s))
            /\ \A i, j \in 1..Len(catalog[s].reviews) :
                   catalog[s].reviews[i].id = catalog[s].reviews[j].id => i = j)
    /\ [][/\ \A s \in DOMAIN catalog \cap DOMAIN catalog' :
               /\ Len(catalog'[s].reviews) \in
                      {Len(catalog[s].reviews), Len(catalog[s].reviews) + 1}
               /\ SubSeq(catalog'[s].reviews, 1, Len(catalog[s].reviews)) = catalog[s].reviews
          /\ \A c \in Calls :
               (call[c].pc = "started" /\ call'[c].pc = "pushed"
                  /\ call[c].souvenirId \in DOMAIN catalog)
               => LET old == catalog[call[c].souvenirId].reviews
                      new == catalog'[call[c].souvenirId].reviews
                  IN  /\ Len(new) = Len(old) + 1
                      /\ new[Len(new)].id = call[c].id]_vars

\* two calls on the same souvenir are both between their append and their
\* aggregation, and both reviews are in the sequence
C2_Witness ==
    \E c, d \in Calls :
        /\ c # d /\ call[c].pc = "pushed" /\ call[d].pc = "pushed"
        /\ call[c].souvenirId = call[d].souvenirId
        /\ call[c].souvenirId \in DOMAIN catalog
        /\ LET revs == catalog[call[c].souvenirId].reviews IN
             /\ Len(InitialReviews(call[c].souvenirId)) = 1
             /\ Len(revs) = 3
             /\ revs[1] = InitialReviews(call[c].souvenirId)[1]
             /\ {revs[2].id, revs[3].id} = {call[c].id, call[d].id}

\* C3: once no addReview call is in flight, the persisted rating of every
\* souvenir on which a call has completed its step-2 write is the mean of
\* the ratings of all its reviews.
C3_QuiescentRatingIsMean ==
    \A s \in DOMAIN catalog :
        (Quiescent /\ \E c \in Calls : call[c].souvenirId = s /\ call[c].pc = "done")
        => IsMeanOfAll(catalog[s].rating, catalog[s].reviews)

\* C4: a completed addReview call whose souvenirId never resolved has failed
\* with NotFound.
C4_MissingSouvenirIsNotFound ==
    \A c \in Calls :
        (call[c].pc \in {"done", "failed"} /\ call[c].souvenirId \notin InitialIds)
        => (call[c].pc = "failed" /\ call[c].error = "NotFound")

\* price x amount summed over the items that resolve in the catalog
RECURSIVE ResolvedTotal(_, _)
ResolvedTotal(items, n) ==
    IF n = 0 THEN 0
    ELSE ResolvedTotal(items, n - 1)
         + (IF items[n].souvenirId \in DOMAIN catalog
            THEN catalog[items[n].souvenirId].price * items[n].amount
            ELSE 0)

\* C5: for a login that has a cart, getCartSum does not fail and returns the
\* sum of price x amount over the items that resolve, 0 when none does.
C5_CartSumOverResolvingItems ==
    (ret.op = "getCartSum" /\ ret.login \in DOMAIN carts)
    => /\ ret.error = "none"
       /\ ret.value = ResolvedTotal(carts[ret.login], Len(carts[ret.login]))

\* the step taken is a call of deleteOutOfStockSouvenirs
PurgeStep == ret'.op = "deleteOutOfStockSouvenirs" /\ call' = call

\* C6: deleteOutOfStockSouvenirs removes exactly the souvenirs whose amount
\* is 0, leaves the others and the carts as they are and reports the number
\* removed; called right after itself it reports 0 and changes nothing.
C6_PurgeExactAndIdempotent ==
    [][PurgeStep =>
         /\ DOMAIN catalog' = {s \in DOMAIN catalog : catalog[s].amount # 0}
         /\ \A s \in DOMAIN catalog' : catalog'[s] = catalog[s]
         /\ carts' = carts
         /\ ret'.deletedCount = Cardinality({s \in DOMAIN catalog : catalog[s].amount = 0})
         /\ (ret.op = "deleteOutOfStockSouvenirs"
               => ret'.deletedCount = 0 /\ catalog' = catalog)]_vars

\* a purge has reported 0 after an earlier purge removed a souvenir and kept
\* another
C6_Witness ==
    /\ ret.op = "deleteOutOfStockSouvenirs"
    /\ ret.deletedCount = 0
    /\ DOMAIN catalog # InitialIds
    /\ DOMAIN catalog # {}

\* the souvenirs with a first review dated date or later
FirstReviewNotBefore(date) ==
    {s \in DOMAIN catalog :
        catalog[s].reviews # <<>> /\ Head(catalog[s].reviews).date >= date}

\* C7: getDisscusedSouvenirs(d) is exactly the souvenirs that have a review
\* and whose review at index 0 is dated d or later; a souvenir whose first
\* review is dated before d does not enter the result when reviews are
\* appended.
C7_DisscusedByFirstReview ==
    /\ [](\A d \in Dates : DisscusedSouvenirs(catalog, d) = FirstReviewNotBefore(d))
    /\ [][/\ \A d \in Dates : \A s \in DOMAIN catalog \cap DOMAIN catalog' :
               (catalog[s].reviews # <<>> /\ Head(catalog[s].reviews).date < d)
               => s \notin DisscusedSouvenirs(catalog', d)
          /\ (ret'.op = "getDisscusedSouvenirs" /\ call' = call)
               => ret'.value = FirstReviewNotBefore(ret'.date)]_vars

\* the query has left out a souvenir whose first review is earlier than the
\* date asked for and whose last review is not
C7_Witness ==
    /\ ret.op = "getDisscusedSouvenirs"
    /\ ret.value = DisscusedSouvenirs(catalog, ret.date)
    /\ \E s \in DOMAIN catalog :
         LET revs == catalog[s].reviews IN
         /\ Len(revs) >= 2
         /\ revs[1].date < ret.date
         /\ revs[Len(revs)].date >= ret.date
         /\ s \notin ret.value
    /\ \E s \in DOMAIN catalog : s \in ret.value

\* C8: every review appended by a call carries that call's login, rating and
\* text, the id and the date the call generated, an id no other review has,
\* and isApproved = FALSE.
C8_AppendedReviewFields ==
    \A s \in DOMAIN catalog : \A i \in 1..Len(catalog[s].reviews) :
        LET r == catalog[s].reviews[i] IN
        (i > Len(InitialReviews(s)))
        => /\ \E c \in Calls :
                /\ call[c].id = r.id /\ call[c].souvenirId = s
                /\ r.login = call[c].login /\ r.rating = call[c].rating
                /\ r.text = call[c].text /\ r.date = call[c].date
           /\ \A t \in DOMAIN catalog : \A j \in 1..Len(catalog[t].reviews) :
                catalog[t].reviews[j].id = r.id => (t = s /\ j = i)
           /\ "isApproved" \in DOMAIN r
           /\ r.isApproved = FALSE

\* C9: the reviews of every souvenir are in chronological order.
C9_Chronological ==
    \A s \in DOMAIN catalog : \A i, j \in 1..Len(catalog[s].reviews) :
        i < j => catalog[s].reviews[i].date <= catalog[s].reviews[j].date

\* C10: the value a call's step 2 writes to rating is the mean of the
\* ratings of a prefix of the review sequence that contains the call's own
\* review.
C10_WrittenRatingIsPrefixMean ==
    [][\A c \in Calls :
          (call[c].pc = "aggregated" /\ call'[c].pc = "done"
             /\ call[c].souvenirId \in DOMAIN catalog')
          => LET doc == catalog'[call[c].souvenirId] IN
             \E k \in 1..Len(doc.reviews) :
                /\ IsMeanOfFirst(doc.rating, doc.reviews, k)
                /\ \E i \in 1..k : doc.reviews[i].id = call[c].id]_vars

\* a call has written the mean of a proper prefix that is not the mean of
\* the whole sequence: another call appended between its read and its write
C10_Witness ==
    \E c \in Calls :
        /\ call[c].pc = "done" /\ call[c].souvenirId \in DOMAIN catalog
        /\ LET doc == catalog[call[c].souvenirId] IN
             /\ doc.rating = call[c].aggregateResult[1].rating
             /\ ~IsMeanOfAll(doc.rating, doc.reviews)
             /\ \E k \in 1..(Len(doc.reviews) - 1) :
                  /\ IsMeanOfFirst(doc.rating, doc.reviews, k)
                  /\ \E i \in 1..k : doc.reviews[i].id = call[c].id
====
